---- MODULE Spec2Model ----
(***************************************************************************)
(* Model of nemo/collections/llm/quantization/quantizer.py:                *)
(*   - get_modelopt_decoder_type  (decoder-type resolver)                  *)
(*   - Quantizer.__init__ / _setup / _get_decoder_type / quantize / export *)
(*   - get_calib_data_iter        (calibration data iterator)              *)
(* Each part has its own specification over the shared variables.          *)
(***************************************************************************)
EXTENDS Integers, Sequences, FiniteSets, TLC

None == "None"

(***************************************************************************)
(* Bounds of the model.                                                    *)
(***************************************************************************)
NumRanks   == 2   \* processes of the distributed group running export
MaxExports == 2   \* export calls made by each rank
MaxCorpus  == 5   \* largest corpus size, in rows
MaxBatch   == 3   \* largest batch_size
MaxCalib   == 5   \* largest requested calib_size
MaxQuantizers == 2  \* Quantizer objects constructed by the process

VARIABLES
    \* ---- Quantizer.export, one instance per rank ----
    pc,                    \* rank -> position inside export
    ckpt_arg,              \* rank -> nemo_checkpoint_path argument of the running call
    calls,                 \* rank -> number of export calls started
    exportsDone,           \* rank -> number of export toolkit calls that returned
    arrivals,              \* rank -> number of dist.barrier() calls entered
    nemo_checkpoint_path,  \* rank -> self.nemo_checkpoint_path of that rank's Quantizer
    srcExists,             \* os.path.exists(tokenizer_src)
    dstExists,             \* os.path.exists(tokenizer_dst)
    copyLog,               \* tokenizer copy attempts, in order, each with the
                           \* exportsDone counters at the moment of the attempt
    \* ---- get_calib_data_iter ----
    dataset_len,           \* len(dataset)
    batch_size,
    calib_size,            \* the local calib_size (rebound at line 287)
    gen_pc,                \* position of the generator
    gen_i,                 \* loop index i
    yielded,               \* sequence of the row counts of the batches yielded so far
    \* ---- get_modelopt_decoder_type ----
    config_bases,          \* mapped families the config is an instance of
    decoder_label,         \* returned label (None before the call)
    warnings,              \* number of logging.warning calls made
    \* ---- Quantizer.__init__ / quantize ----
    HAVE_MODELOPT,         \* module flag set by the import at lines 29-46
    cuda_available,        \* torch.cuda.is_available()
    export_config,         \* the ExportConfig the caller built (NoExportConfig: None)
    quantizer,             \* the Quantizer object in use (NoQuantizer before the first)
    constructed,           \* number of Quantizer objects produced so far
    QUANT_CFG_CHOICES,     \* the module-level recipe table (a mutable dict of dicts)
    model,                 \* the fields of the model that quantize writes
    last                   \* the last operation: its algorithm argument, its
                           \* collaborator calls, the recipe it passed, its result

exportVars  == <<pc, ckpt_arg, calls, exportsDone, arrivals, nemo_checkpoint_path,
                 srcExists, dstExists, copyLog>>
calibVars   == <<dataset_len, batch_size, calib_size, gen_pc, gen_i, yielded>>
decoderVars == <<config_bases, decoder_label, warnings>>
quantVars   == <<HAVE_MODELOPT, cuda_available, export_config, quantizer, constructed,
                 QUANT_CFG_CHOICES, model, last>>
vars        == <<exportVars, calibVars, decoderVars, quantVars>>

Min(a, b) == IF a < b THEN a ELSE b
Max(a, b) == IF a > b THEN a ELSE b

(***************************************************************************)
(* Quantizer.export (lines 238-270), run by every rank of the group.       *)
(***************************************************************************)
Ranks == 0 .. (NumRanks - 1)
CkptPaths == {None, "ckpt"}

ExportInit ==
    /\ pc = [r \in Ranks |-> "idle"]
    /\ ckpt_arg = [r \in Ranks |-> None]
    /\ calls = [r \in Ranks |-> 0]
    /\ exportsDone = [r \in Ranks |-> 0]
    /\ arrivals = [r \in Ranks |-> 0]
    /\ nemo_checkpoint_path = [r \in Ranks |-> None]
    /\ srcExists \in BOOLEAN
    /\ dstExists \in BOOLEAN
    /\ copyLog = <<>>

\* export(model, nemo_checkpoint_path) is entered; lines 239-247 read only.
ExportCall(r, path) ==
    /\ pc[r] = "idle"
    /\ calls[r] < MaxExports
    /\ pc' = [pc EXCEPT ![r] = "toolkit"]
    /\ ckpt_arg' = [ckpt_arg EXCEPT ![r] = path]
    /\ calls' = [calls EXCEPT ![r] = @ + 1]
    /\ UNCHANGED <<exportsDone, arrivals, nemo_checkpoint_path, srcExists, dstExists, copyLog>>
    /\ UNCHANGED <<calibVars, decoderVars, quantVars>>

\* export_tensorrt_llm_checkpoint(...) returns (lines 248-256).
ToolkitReturn(r) ==
    /\ pc[r] = "toolkit"
    /\ pc' = [pc EXCEPT ![r] = "barrier"]
    /\ exportsDone' = [exportsDone EXCEPT ![r] = @ + 1]
    /\ UNCHANGED <<ckpt_arg, calls, arrivals, nemo_checkpoint_path, srcExists, dstExists, copyLog>>
    /\ UNCHANGED <<calibVars, decoderVars, quantVars>>

\* dist.barrier() is called (line 258): the rank joins the barrier.
BarrierEnter(r) ==
    /\ pc[r] = "barrier"
    /\ pc' = [pc EXCEPT ![r] = "wait"]
    /\ arrivals' = [arrivals EXCEPT ![r] = @ + 1]
    /\ UNCHANGED <<ckpt_arg, calls, exportsDone, nemo_checkpoint_path, srcExists, dstExists, copyLog>>
    /\ UNCHANGED <<calibVars, decoderVars, quantVars>>

\* A barrier lets a rank go once every rank of the group has joined it.
BarrierOpenNoWait(r) == TRUE
BarrierOpen(r) == \A s \in Ranks : arrivals[s] >= arrivals[r]

\* dist.barrier() returns (line 258), then the log line 259.
BarrierRelease(r) ==
    /\ pc[r] = "wait"
    /\ BarrierOpen(r)
    /\ pc' = [pc EXCEPT ![r] = "rankcheck"]
    /\ UNCHANGED <<ckpt_arg, calls, exportsDone, arrivals, nemo_checkpoint_path,
                   srcExists, dstExists, copyLog>>
    /\ UNCHANGED <<calibVars, decoderVars, quantVars>>

\* path `or` self.nemo_checkpoint_path (line 262).
PathOr(a, b) == IF a # None THEN a ELSE b

\* dist.get_rank() == 0 (line 261).
IsCoordinator(r) == r = 0

\* Lines 261-263: the rank test, the path update and the test for a known path.
RankCheck(r) ==
    /\ pc[r] = "rankcheck"
    /\ IF IsCoordinator(r)
       THEN /\ nemo_checkpoint_path' =
                  [nemo_checkpoint_path EXCEPT ![r] = PathOr(ckpt_arg[r], @)]
            /\ pc' = [pc EXCEPT ![r] =
                  IF nemo_checkpoint_path'[r] # None THEN "copy" ELSE "idle"]
       ELSE /\ pc' = [pc EXCEPT ![r] = "idle"]
            /\ UNCHANGED nemo_checkpoint_path
    /\ UNCHANGED <<ckpt_arg, calls, exportsDone, arrivals, srcExists, dstExists, copyLog>>
    /\ UNCHANGED <<calibVars, decoderVars, quantVars>>

\* Lines 264-270: the tokenizer copy attempt.
TokenizerCopy(r) ==
    /\ pc[r] = "copy"
    /\ IF srcExists /\ ~dstExists
       THEN /\ dstExists' = TRUE
            /\ copyLog' = Append(copyLog, [rank |-> r, round |-> calls[r],
                                            copied |-> TRUE, exported |-> exportsDone])
       ELSE /\ UNCHANGED dstExists
            /\ copyLog' = Append(copyLog, [rank |-> r, round |-> calls[r],
                                            copied |-> FALSE, exported |-> exportsDone])
    /\ pc' = [pc EXCEPT ![r] = "idle"]
    /\ UNCHANGED <<ckpt_arg, calls, exportsDone, arrivals, nemo_checkpoint_path, srcExists>>
    /\ UNCHANGED <<calibVars, decoderVars, quantVars>>

ExportNext ==
    \/ \E r \in Ranks, path \in CkptPaths : ExportCall(r, path)
    \/ \E r \in Ranks : ToolkitReturn(r)
    \/ \E r \in Ranks : BarrierEnter(r)
    \/ \E r \in Ranks : BarrierRelease(r)
    \/ \E r \in Ranks : RankCheck(r)
    \/ \E r \in Ranks : TokenizerCopy(r)

(***************************************************************************)
(* get_calib_data_iter (lines 273-292).  A batch is modelled by its number *)
(* of rows: the truncation of line 291 changes the rows, not their count.  *)
(***************************************************************************)
CalibInit ==
    /\ dataset_len \in 0 .. MaxCorpus
    /\ batch_size \in 1 .. MaxBatch
    /\ calib_size \in 1 .. MaxCalib
    /\ gen_pc = "created"
    /\ gen_i = 0
    /\ yielded = <<>>

\* calib_size = max(min(len(dataset), calib_size), batch_size)   (line 287)
EffectiveCalibSizeMinLast(len, cs, bs) == Min(len, Max(cs, bs))
EffectiveCalibSize(len, cs, bs) == Max(Min(len, cs), bs)

\* len(dataset[lo:hi]) for 0 <= lo <= hi: a slice stops at the end of the data.
SliceLen(len, lo, hi) == Min(len, hi) - Min(len, lo)

\* The first next(): the body runs from line 277 to the loop header of line 288.
CalibStart ==
    /\ gen_pc = "created"
    /\ calib_size' = EffectiveCalibSize(dataset_len, calib_size, batch_size)
    /\ gen_pc' = "loop"
    /\ UNCHANGED <<dataset_len, batch_size, gen_i, yielded>>
    /\ UNCHANGED <<exportVars, decoderVars, quantVars>>

\* One iteration of the loop (lines 288-292): the batch is sliced and yielded.
CalibYield ==
    /\ gen_pc = "loop"
    /\ gen_i < calib_size \div batch_size
    /\ yielded' = Append(yielded,
            SliceLen(dataset_len, gen_i * batch_size, (gen_i + 1) * batch_size))
    /\ gen_i' = gen_i + 1
    /\ UNCHANGED <<dataset_len, batch_size, calib_size, gen_pc>>
    /\ UNCHANGED <<exportVars, decoderVars, quantVars>>

\* range() is exhausted: the generator returns.
CalibStop ==
    /\ gen_pc = "loop"
    /\ ~(gen_i < calib_size \div batch_size)
    /\ gen_pc' = "done"
    /\ UNCHANGED <<dataset_len, batch_size, calib_size, gen_i, yielded>>
    /\ UNCHANGED <<exportVars, decoderVars, quantVars>>

CalibNext == CalibStart \/ CalibYield \/ CalibStop

(***************************************************************************)
(* get_modelopt_decoder_type (lines 67-88).  A config is described by the  *)
(* set of mapped families it is an instance of (isinstance follows the     *)
(* class hierarchy, so a config may match none, one or several).           *)
(***************************************************************************)
mapping == <<
    [cls |-> "Baichuan2Config",  label |-> "baichuan"],
    [cls |-> "ChatGLMConfig",    label |-> "chatglm"],
    [cls |-> "GemmaConfig",      label |-> "gemma"],
    [cls |-> "LlamaConfig",      label |-> "llama"],
    [cls |-> "MistralConfig7B",  label |-> "llama"],
    [cls |-> "MixtralConfig",    label |-> "llama"],
    [cls |-> "NemotronConfig",   label |-> "gptnext"],
    [cls |-> "Qwen2Config",      label |-> "qwen"],
    [cls |-> "Starcoder2Config", label |-> "gptnext"] >>

Families == {mapping[i].cls : i \in 1 .. Len(mapping)}

\* The for loop of lines 82-84 from index i on, then the fallback of lines 86-88.
\* The result is the label and the number of warnings logged.
RECURSIVE Walk(_, _)
Walk(bases, i) ==
    IF i > Len(mapping) THEN [label |-> "llama", warned |-> 1]
    ELSE IF mapping[i].cls \in bases THEN [label |-> mapping[i].label, warned |-> 0]
    ELSE Walk(bases, i + 1)

RECURSIVE WalkLast(_, _)
WalkLast(bases, i) ==
    IF i < 1 THEN [label |-> "llama", warned |-> 1]
    ELSE IF mapping[i].cls \in bases THEN [label |-> mapping[i].label, warned |-> 0]
    ELSE WalkLast(bases, i - 1)

get_modelopt_decoder_type_last(bases) == WalkLast(bases, Len(mapping))
get_modelopt_decoder_type(bases) == Walk(bases, 1)

DecoderInit ==
    /\ config_bases \in SUBSET Families
    /\ decoder_label = None
    /\ warnings = 0

ResolveDecoderType ==
    /\ decoder_label = None
    /\ decoder_label' = get_modelopt_decoder_type(config_bases).label
    /\ warnings' = warnings + get_modelopt_decoder_type(config_bases).warned
    /\ UNCHANGED config_bases
    /\ UNCHANGED <<exportVars, calibVars, quantVars>>

DecoderNext == ResolveDecoderType


(***************************************************************************)
(* The recipe table QUANT_CFG_CHOICES (lines 33-40).  Its six values are   *)
(* the toolkit's recipes; of each recipe the model keeps what quantize     *)
(* reads or writes:                                                        *)
(*   weight_quantizer  quant_cfg["*weight_quantizer"]: one quantizer       *)
(*                     (single) or a list of them (items); block_last is   *)
(*                     the entry block_sizes[-1], 0 when there is none     *)
(*   output_quantizer  quant_cfg["*output_quantizer"]                      *)
(*   algorithm         the recipe's "algorithm" entry; alpha is in tenths, *)
(*                     0 when the entry carries none                       *)
(***************************************************************************)
NoItem == [num_bits |-> "none", block_last |-> 0]
Single(x) == [is_list |-> FALSE, single |-> x, items |-> <<>>]
List(xs)  == [is_list |-> TRUE, single |-> NoItem, items |-> xs]

TemplateOutputQuantizer == [num_bits |-> "unset", axis |-> "unset", enable |-> "False"]

ModeloptCfg == [
    int8 |-> [
        weight_quantizer |-> Single([num_bits |-> "8", block_last |-> 0]),
        output_quantizer |-> TemplateOutputQuantizer,
        algorithm |-> [method |-> "max", alpha |-> 0]],
    int8_sq |-> [
        weight_quantizer |-> Single([num_bits |-> "8", block_last |-> 0]),
        output_quantizer |-> TemplateOutputQuantizer,
        algorithm |-> [method |-> "smoothquant", alpha |-> 0]],
    fp8 |-> [
        weight_quantizer |-> Single([num_bits |-> "(4, 3)", block_last |-> 0]),
        output_quantizer |-> TemplateOutputQuantizer,
        algorithm |-> [method |-> "max", alpha |-> 0]],
    int4_awq |-> [
        weight_quantizer |-> Single([num_bits |-> "4", block_last |-> 128]),
        output_quantizer |-> TemplateOutputQuantizer,
        algorithm |-> [method |-> "awq_lite", alpha |-> 0]],
    w4a8_awq |-> [
        weight_quantizer |-> List(<<[num_bits |-> "4", block_last |-> 128],
                                   [num_bits |-> "(4, 3)", block_last |-> 0]>>),
        output_quantizer |-> TemplateOutputQuantizer,
        algorithm |-> [method |-> "awq_lite", alpha |-> 0]],
    int4 |-> [
        weight_quantizer |-> Single([num_bits |-> "4", block_last |-> 128]),
        output_quantizer |-> TemplateOutputQuantizer,
        algorithm |-> [method |-> "max", alpha |-> 0]] ]

\* The keys of QUANT_CFG_CHOICES.
Algorithms == DOMAIN ModeloptCfg

\* The algorithm names, spelled out, for the substring tests of lines 158 and 169.
Spelling == [
    int8     |-> <<"i", "n", "t", "8">>,
    int8_sq  |-> <<"i", "n", "t", "8", "_", "s", "q">>,
    fp8      |-> <<"f", "p", "8">>,
    int4_awq |-> <<"i", "n", "t", "4", "_", "a", "w", "q">>,
    w4a8_awq |-> <<"w", "4", "a", "8", "_", "a", "w", "q">>,
    int4     |-> <<"i", "n", "t", "4">> ]

\* Python's `sub in s` on strings.
StrContains(sub, s) ==
    \E i \in 1 .. (Len(s) - Len(sub) + 1) : SubSeq(s, i, i + Len(sub) - 1) = sub

\* Line 49.  The int 16 and the str "16" are different members.
SUPPORTED_DTYPE == <<"int:16", "str:16", "str:bf16">>

\* Python's `x in list`.
ListContains(x, list) == \E i \in 1 .. Len(list) : list[i] = x

\* torch_dtype_from_precision (nemo.collections.nlp.parts.utils_funcs), on the
\* supported labels.
torch_dtype_from_precision(dtype) ==
    IF dtype = "str:bf16" THEN "torch.bfloat16" ELSE "torch.float16"

(***************************************************************************)
(* QuantizationConfig and ExportConfig (lines 51-64) and the inputs the    *)
(* caller builds them from.                                                *)
(***************************************************************************)
AlgorithmInputs == Algorithms \cup {None, "int2"}
BlockSizeInputs == {64, 128}
AlphaInputs     == {5, 10}                  \* sq_alpha in tenths
KvCacheInputs   == {"True", "False", None}
DtypeInputs     == {"int:16", "str:16", "str:bf16", "int:32"}
DecoderTypeInputs == {None, "gptnext"}      \* ExportConfig.decoder_type
ConfigInputs    == {{}, {"LlamaConfig"}, {"NemotronConfig"}}   \* classes of the model's config

QuantizationConfig ==
    [algorithm : AlgorithmInputs, awq_block_size : BlockSizeInputs,
     sq_alpha : AlphaInputs, enable_kv_cache : KvCacheInputs]

ExportConfig == [dtype : DtypeInputs, decoder_type : DecoderTypeInputs]
NoExportConfig == [dtype |-> "no export config"]

NoQuantizer == [algorithm |-> "no quantizer"]
NoCfg == [algorithm |-> [method |-> "no recipe"]]


(***************************************************************************)
(* Quantizer.__init__ (lines 111-130).                                     *)
(***************************************************************************)
\* The checks of __init__ in the order of the code; "ok" when none raises.
\* Line 124 reads export_config.dtype before the test of line 128.
InitOutcomeNoAlgorithmCheck(qc, ec) ==
    IF ~HAVE_MODELOPT THEN "RuntimeError"
    ELSE IF ~cuda_available THEN "EnvironmentError"
    ELSE IF ec = NoExportConfig THEN "AttributeError"
    ELSE IF ~ListContains(ec.dtype, SUPPORTED_DTYPE) THEN "AssertionError"
    ELSE "ok"

InitOutcome(qc, ec) ==
    IF ~HAVE_MODELOPT THEN "RuntimeError"
    ELSE IF ~cuda_available THEN "EnvironmentError"
    ELSE IF ec = NoExportConfig THEN "AttributeError"
    ELSE IF ~(qc.algorithm = None \/ qc.algorithm \in DOMAIN QUANT_CFG_CHOICES)
        THEN "AssertionError"
    ELSE IF ~ListContains(ec.dtype, SUPPORTED_DTYPE) THEN "AssertionError"
    ELSE "ok"

\* The object __init__ leaves behind (lines 119-121 and 130).
NewQuantizer(qc, ec) ==
    [algorithm |-> qc.algorithm, awq_block_size |-> qc.awq_block_size,
     sq_alpha |-> qc.sq_alpha, enable_kv_cache |-> qc.enable_kv_cache,
     dtype |-> ec.dtype, decoder_type |-> ec.decoder_type,
     torch_dtype |-> torch_dtype_from_precision(ec.dtype)]

NoCall == [op |-> "none", outcome |-> "none", algorithm |-> None,
           rank |-> 0, decoder_type |-> None,
           trace |-> <<>>, passed |-> NoCfg, returned |-> None]

\* Quantizer(qc, export_config).  The caller builds its ExportConfig once and
\* hands it to every Quantizer it makes.  When __init__ raises no object comes
\* into being and the caller keeps what it had.
Construct(qc) ==
    /\ constructed < MaxQuantizers
    /\ last' = [NoCall EXCEPT !.op = "construct",
                              !.outcome = InitOutcome(qc, export_config),
                              !.algorithm = qc.algorithm]
    /\ IF InitOutcome(qc, export_config) = "ok"
       THEN /\ quantizer' = NewQuantizer(qc, export_config)
            /\ constructed' = constructed + 1
       ELSE UNCHANGED <<quantizer, constructed>>
    /\ UNCHANGED <<HAVE_MODELOPT, cuda_available, export_config, QUANT_CFG_CHOICES, model>>
    /\ UNCHANGED <<exportVars, calibVars, decoderVars>>

(***************************************************************************)
(* Quantizer.quantize (lines 145-201) with _setup and _get_decoder_type.   *)
(***************************************************************************)
Event(name) == [ev |-> name, min_x100 |-> 0 - 1]

\* _setup (lines 133-138): the writes to the model, and the calls it makes.
setup(q, m) ==
    [m EXCEPT !.vocab_size = "tokenizer.vocab_size",
              !.pipeline_dtype = q.torch_dtype,
              !.frozen = TRUE]
setupTrace == <<Event("config.vocab_size="), Event("config.pipeline_dtype="),
                Event("model.freeze")>>

\* _get_decoder_type (lines 141-142): the override, or else the inferred type.
get_decoder_type(q, bases) ==
    IF q.decoder_type # None THEN q.decoder_type
    ELSE get_modelopt_decoder_type(bases).label

\* Lines 158-162: the block size override of the awq algorithms.
SetBlockSizeSingleOnly(wq, size) == [wq EXCEPT !.single.block_last = size]
SetBlockSize(wq, size) ==
    IF wq.is_list THEN [wq EXCEPT !.items[1].block_last = size]
    ELSE [wq EXCEPT !.single.block_last = size]

PyBool(b) == IF b THEN "True" ELSE "False"

\* Lines 167-169: the effective KV-cache switch.
EnableKvCacheDefaultOn(q, algorithm, decoder_type) ==
    IF q.enable_kv_cache = None THEN "True" ELSE q.enable_kv_cache
EnableKvCache(q, algorithm, decoder_type) ==
    IF q.enable_kv_cache = None
    THEN PyBool(~StrContains(<<"i", "n", "t", "8">>, Spelling[algorithm])
                /\ decoder_type # "gptnext")
    ELSE q.enable_kv_cache

\* Lines 171-175: the output quantizer entry.
OutputQuantizerAlways43(q, algorithm, decoder_type) ==
    [num_bits |-> "(4, 3)", axis |-> None,
     enable |-> EnableKvCache(q, algorithm, decoder_type)]
OutputQuantizer(q, algorithm, decoder_type) ==
    [num_bits |-> IF algorithm = "int8_sq" THEN "8" ELSE "(4, 3)",
     axis |-> None,
     enable |-> EnableKvCache(q, algorithm, decoder_type)]

\* Lines 157-179: the recipe quantize hands to the toolkit, built from the table
\* entry cfg of the algorithm.
BuildRecipe(cfg, q, algorithm, decoder_type) ==
    LET c1 == IF StrContains(<<"a", "w", "q">>, Spelling[algorithm])
              THEN [cfg EXCEPT !.weight_quantizer = SetBlockSize(@, q.awq_block_size)]
              ELSE cfg
        c2 == [c1 EXCEPT !.output_quantizer = OutputQuantizer(q, algorithm, decoder_type)]
    IN  IF algorithm = "int8_sq"
        THEN [c2 EXCEPT !.algorithm = [method |-> "smoothquant", alpha |-> q.sq_alpha]]
        ELSE c2

\* quant_cfg = QUANT_CFG_CHOICES[algorithm] (line 157) binds the table's own entry,
\* so the writes of lines 162-179 land in the table.
TableAfter(table, q, algorithm, decoder_type) ==
    [table EXCEPT ![algorithm] = BuildRecipe(@, q, algorithm, decoder_type)]

\* Lines 186-192: the bound of the clamp.
maxbound(algorithm) ==
    IF algorithm = "fp8" THEN 448
    ELSE IF algorithm = "int8_sq" THEN 127
    ELSE 0

\* Lines 183-196: the clamp post-pass.  Its threshold 0.01 * maxbound is kept in
\* hundredths.
ClampTraceAlways(algorithm, decoder_type) ==
    <<[ev |-> "mtq.postprocess_amax", min_x100 |-> maxbound(algorithm)]>>
ClampTrace(algorithm, decoder_type) ==
    IF decoder_type = "gptnext"
    THEN <<[ev |-> "mtq.postprocess_amax", min_x100 |-> maxbound(algorithm)]>>
    ELSE <<>>

\* Lines 198-199: the summary.
SummaryTrace(rank) ==
    IF rank = 0 THEN <<Event("mtq.print_quant_summary")>> ELSE <<>>

\* The collaborator calls of one quantize call with an algorithm, in the order
\* of the code (lines 154-199).
QuantizeTrace(algorithm, decoder_type, rank) ==
    setupTrace
    \o <<Event("get_unwrapped_mcore_model"), Event("recipe"), Event("mtq.quantize")>>
    \o ClampTrace(algorithm, decoder_type)
    \o SummaryTrace(rank)

\* The model after quantize: untouched on the early return of lines 148-150,
\* set up by line 154 otherwise.
ModelAfterSetupFirst(q, m) == setup(q, m)
ModelAfterQuantize(q, m) == IF q.algorithm = None THEN m ELSE setup(q, m)

\* quantize(model, forward_loop) run on the rank `rank` with a model whose config
\* has the classes `bases`.
Quantize(rank, bases) ==
    /\ quantizer # NoQuantizer
    /\ model' = ModelAfterQuantize(quantizer, model)
    /\ LET algorithm == quantizer.algorithm
           decoder_type == get_decoder_type(quantizer, bases)
       IN  IF algorithm = None
           THEN /\ last' = [NoCall EXCEPT !.op = "quantize", !.outcome = "ok",
                                          !.returned = "model"]
                /\ UNCHANGED QUANT_CFG_CHOICES
           ELSE /\ QUANT_CFG_CHOICES' =
                       TableAfter(QUANT_CFG_CHOICES, quantizer, algorithm, decoder_type)
                /\ last' = [op |-> "quantize", outcome |-> "ok",
                            algorithm |-> algorithm, rank |-> rank,
                            decoder_type |-> decoder_type,
                            trace |-> QuantizeTrace(algorithm, decoder_type, rank),
                            passed |-> QUANT_CFG_CHOICES'[algorithm],
                            returned |-> "model"]
    /\ UNCHANGED <<HAVE_MODELOPT, cuda_available, export_config, quantizer, constructed>>
    /\ UNCHANGED <<exportVars, calibVars, decoderVars>>

QuantInit ==
    /\ HAVE_MODELOPT \in BOOLEAN
    /\ cuda_available \in BOOLEAN
    /\ export_config \in ExportConfig \cup {NoExportConfig}
    /\ quantizer = NoQuantizer
    /\ constructed = 0
    /\ QUANT_CFG_CHOICES = ModeloptCfg
    /\ model = [vocab_size |-> "unset", pipeline_dtype |-> "unset", frozen |-> FALSE]
    /\ last = NoCall

(***************************************************************************)
(* Specifications.  Each part runs with the other parts at rest.           *)
(***************************************************************************)
ExportIdle ==
    /\ pc = [r \in Ranks |-> "idle"]
    /\ ckpt_arg = [r \in Ranks |-> None]
    /\ calls = [r \in Ranks |-> 0]
    /\ exportsDone = [r \in Ranks |-> 0]
    /\ arrivals = [r \in Ranks |-> 0]
    /\ nemo_checkpoint_path = [r \in Ranks |-> None]
    /\ srcExists = FALSE
    /\ dstExists = FALSE
    /\ copyLog = <<>>

CalibIdle ==
    /\ dataset_len = 0
    /\ batch_size = 1
    /\ calib_size = 1
    /\ gen_pc = "created"
    /\ gen_i = 0
    /\ yielded = <<>>

DecoderIdle ==
    /\ config_bases = {}
    /\ decoder_label = None
    /\ warnings = 0

QuantIdle ==
    /\ HAVE_MODELOPT = TRUE
    /\ cuda_available = TRUE
    /\ export_config = NoExportConfig
    /\ quantizer = NoQuantizer
    /\ constructed = 0
    /\ QUANT_CFG_CHOICES = ModeloptCfg
    /\ model = [vocab_size |-> "unset", pipeline_dtype |-> "unset", frozen |-> FALSE]
    /\ last = NoCall

InitExport == ExportInit /\ CalibIdle /\ DecoderIdle /\ QuantIdle
SpecExport == InitExport /\ [][ExportNext]_vars

InitCalib == CalibInit /\ ExportIdle /\ DecoderIdle /\ QuantIdle
SpecCalib == InitCalib /\ [][CalibNext]_vars

InitDecoder == DecoderInit /\ ExportIdle /\ CalibIdle /\ QuantIdle
SpecDecoder == InitDecoder /\ [][DecoderNext]_vars

QuantNext ==
    \/ \E qc \in QuantizationConfig : Construct(qc)
    \/ \E rank \in Ranks, bases \in ConfigInputs : Quantize(rank, bases)

InitQuant == QuantInit /\ ExportIdle /\ CalibIdle /\ DecoderIdle
SpecQuant == InitQuant /\ [][QuantNext]_vars

Init == ExportInit /\ CalibInit /\ DecoderInit /\ QuantInit
Next == ExportNext \/ CalibNext \/ DecoderNext \/ QuantNext
Spec == Init /\ [][Next]_vars

(***************************************************************************)
(* Properties of Quantizer.export, under SpecExport.                       *)
(***************************************************************************)
\* C1: a rank joins the barrier only after its own export toolkit call has
\* returned; a tokenizer copy is attempted only by rank 0, and at the moment of
\* the attempt the export toolkit call of that round has returned on every rank.
ExportBarrierOrder ==
    /\ \A r \in Ranks : arrivals[r] <= exportsDone[r]
    /\ \A r \in Ranks : pc[r] = "copy" =>
          /\ r = 0
          /\ \A s \in Ranks : exportsDone[s] >= calls[r]
    /\ \A i \in 1 .. Len(copyLog) :
          /\ copyLog[i].rank = 0
          /\ \A s \in Ranks : copyLog[i].exported[s] >= copyLog[i].round

\* A second export round in which rank 0 has attempted the copy.
ExportBarrierOrderWitness ==
    \E i \in 1 .. Len(copyLog) : copyLog[i].round = 2 /\ copyLog[1].copied

(***************************************************************************)
(* Properties of get_calib_data_iter, under SpecCalib.                     *)
(***************************************************************************)
AllFullBatches == \A i \in 1 .. Len(yielded) : yielded[i] = batch_size

\* C7 as stated: once the iterator is exhausted the effective sample count is at
\* least batch_size and at most the corpus size, floor(count / batch_size) batches
\* were yielded, and each has exactly batch_size rows.
CalibClampedFullBatches ==
    gen_pc = "done" =>
        /\ calib_size >= batch_size
        /\ calib_size <= dataset_len
        /\ Len(yielded) = calib_size \div batch_size
        /\ AllFullBatches

\* C7 amended: the count is at least batch_size and floor(count / batch_size)
\* batches are yielded; when the corpus holds at least batch_size rows the count
\* is at most the corpus size and every batch has batch_size rows; when it holds
\* fewer, the count is batch_size and the one batch yielded is the whole corpus.
CalibClampedAmended ==
    gen_pc = "done" =>
        /\ calib_size >= batch_size
        /\ Len(yielded) = calib_size \div batch_size
        /\ IF dataset_len >= batch_size
           THEN calib_size <= dataset_len /\ AllFullBatches
           ELSE calib_size = batch_size /\ yielded = <<dataset_len>>

\* An exhausted iterator whose count was clamped to the corpus size and that
\* yielded several batches.
CalibClampedWitness ==
    /\ gen_pc = "done"
    /\ calib_size = dataset_len
    /\ batch_size >= 2
    /\ Len(yielded) >= 2

(***************************************************************************)
(* Properties of get_modelopt_decoder_type, under SpecDecoder.             *)
(***************************************************************************)
DocumentedLabel == [
    Baichuan2Config  |-> "baichuan",
    ChatGLMConfig    |-> "chatglm",
    GemmaConfig      |-> "gemma",
    LlamaConfig      |-> "llama",
    MistralConfig7B  |-> "llama",
    MixtralConfig    |-> "llama",
    NemotronConfig   |-> "gptnext",
    Starcoder2Config |-> "gptnext",
    Qwen2Config      |-> "qwen" ]

\* C8: a config matching some family gets the documented label of the first
\* family of the mapping it matches, and no warning; a config matching none gets
\* "llama" and exactly one warning.
DecoderTypeFirstMatch ==
    decoder_label # None =>
        IF config_bases = {}
        THEN decoder_label = "llama" /\ warnings = 1
        ELSE /\ warnings = 0
             /\ \E i \in 1 .. Len(mapping) :
                   /\ mapping[i].cls \in config_bases
                   /\ \A j \in 1 .. (i - 1) : mapping[j].cls \notin config_bases
                   /\ decoder_label = DocumentedLabel[mapping[i].cls]

\* A config matching two families with different labels, resolved to the first.
DecoderTypeFirstMatchWitness ==
    /\ config_bases = {"Qwen2Config", "Starcoder2Config"}
    /\ decoder_label = "qwen"

(***************************************************************************)
(* Properties of Quantizer.__init__ and Quantizer.quantize, under          *)
(* SpecQuant.                                                              *)
(***************************************************************************)
SixAlgorithms == {"int8", "int8_sq", "fp8", "int4_awq", "w4a8_awq", "int4"}
ThreeDtypes == {"int:16", "str:16", "str:bf16"}

QuantizedWith(algorithms) ==
    /\ last.op = "quantize"
    /\ quantizer.algorithm \in algorithms

\* block_sizes[-1] of the weight quantizer: of the structure itself, or of the
\* first element of the list.
LastBlockSize(wq) ==
    IF wq.is_list THEN wq.items[1].block_last ELSE wq.single.block_last

\* C2: a quantize call on a Quantizer whose algorithm is None returns the model
\* it was given, writes neither the model's config nor its frozen flag, leaves
\* the recipe table alone and calls no collaborator (no toolkit quantize, hence
\* no forward_loop).
QuantizeNoneIsNoOp ==
    [][ (quantizer.algorithm = None
            /\ \E rank \in Ranks, bases \in ConfigInputs : Quantize(rank, bases))
        => /\ model' = model
           /\ QUANT_CFG_CHOICES' = QUANT_CFG_CHOICES
           /\ last'.returned = "model"
           /\ last'.trace = <<>> ]_vars

\* A None-algorithm quantize call made after an earlier Quantizer has quantized.
QuantizeNoneWitness ==
    /\ QuantizedWith({None})
    /\ model.frozen
    /\ QUANT_CFG_CHOICES # ModeloptCfg

\* C3: the enable flag of the output quantizer of the recipe handed to the
\* toolkit is enable_kv_cache when that is True or False, and otherwise is
\* (algorithm is neither int8 nor int8_sq) and (decoder type is not gptnext).
KvCacheEnableFlag ==
    QuantizedWith(SixAlgorithms) =>
        last.passed.output_quantizer.enable =
            IF quantizer.enable_kv_cache \in {"True", "False"}
            THEN quantizer.enable_kv_cache
            ELSE IF quantizer.algorithm \notin {"int8", "int8_sq"}
                    /\ last.decoder_type # "gptnext"
                 THEN "True" ELSE "False"

\* fp8 with enable_kv_cache unset on a gptnext model: the flag is off.
KvCacheEnableFlagWitness ==
    /\ QuantizedWith({"fp8"})
    /\ quantizer.enable_kv_cache = None
    /\ last.decoder_type = "gptnext"
    /\ last.passed.output_quantizer.enable = "False"

\* C4: for int8_sq the output quantizer has 8 bits and the algorithm entry is
\* smoothquant with the configured alpha; for every other algorithm the output
\* quantizer has (4, 3) bits and the algorithm entry is the template's.
OutputBitsAndSmoothing ==
    QuantizedWith(SixAlgorithms) =>
        IF quantizer.algorithm = "int8_sq"
        THEN /\ last.passed.output_quantizer.num_bits = "8"
             /\ last.passed.algorithm =
                    [method |-> "smoothquant", alpha |-> quantizer.sq_alpha]
        ELSE /\ last.passed.output_quantizer.num_bits = "(4, 3)"
             /\ last.passed.algorithm = ModeloptCfg[quantizer.algorithm].algorithm

\* A second int8_sq Quantizer, after a first one left its alpha in the table.
OutputBitsAndSmoothingWitness ==
    /\ QuantizedWith({"int8_sq"})
    /\ constructed = 2
    /\ quantizer.sq_alpha = 5
    /\ last.passed.algorithm.alpha = 5

\* C5: for the awq algorithms the last block size of the weight quantizer is
\* awq_block_size; for the others the weight quantizer is the template's.
AwqBlockSize ==
    QuantizedWith(SixAlgorithms) =>
        IF quantizer.algorithm \in {"int4_awq", "w4a8_awq"}
        THEN LastBlockSize(last.passed.weight_quantizer) = quantizer.awq_block_size
        ELSE last.passed.weight_quantizer =
                 ModeloptCfg[quantizer.algorithm].weight_quantizer

\* w4a8_awq, whose weight quantizer is a list, with a block size that is not the
\* template's.
AwqBlockSizeWitness ==
    /\ QuantizedWith({"w4a8_awq"})
    /\ quantizer.awq_block_size = 64
    /\ last.passed.weight_quantizer.is_list

\* C6: __init__ raises, and produces no object, whenever the algorithm is neither
\* None nor one of the six keys or the dtype is not one of the three labels; so
\* the Quantizer in use always holds a supported algorithm (or None), one the
\* table has an entry for, and a supported dtype.
ConstructionValidates ==
    /\ [](quantizer # NoQuantizer =>
            /\ quantizer.algorithm \in SixAlgorithms \cup {None}
            /\ quantizer.algorithm # None => quantizer.algorithm \in DOMAIN QUANT_CFG_CHOICES
            /\ quantizer.dtype \in ThreeDtypes)
    /\ [][ (/\ last'.op = "construct"
            /\ \/ last'.algorithm \notin SixAlgorithms \cup {None}
               \/ export_config.dtype \notin ThreeDtypes)
           => /\ quantizer' = quantizer
              /\ constructed' = constructed
              /\ last'.outcome \notin {"ok", "none"} ]_vars

\* A construction refused by a configuration check, with a Quantizer made before.
ConstructionValidatesWitness ==
    /\ last.op = "construct"
    /\ last.outcome = "AssertionError"
    /\ constructed = 1

\* C9: every entry of the table QUANT_CFG_CHOICES keeps its initial value.
TemplatesUntouched == QUANT_CFG_CHOICES = ModeloptCfg

ExpectedClampMinX100(algorithm) ==
    IF algorithm = "fp8" THEN 448 ELSE IF algorithm = "int8_sq" THEN 127 ELSE 0

EventNames(t) == [i \in 1 .. Len(t) |-> t[i].ev]

\* C10: the collaborator calls of a quantize call come in the order setup (vocab
\* size, pipeline dtype, freeze), unwrap, recipe, toolkit quantize, then the
\* clamp, then the summary; the clamp is there iff the decoder type is gptnext,
\* with threshold 1% of 448 (fp8), of 127 (int8_sq) or 0; the summary is there
\* iff the rank is 0.
QuantizeStepOrder ==
    QuantizedWith(SixAlgorithms) =>
        LET clamp == IF last.decoder_type = "gptnext"
                     THEN <<"mtq.postprocess_amax">> ELSE <<>>
            summary == IF last.rank = 0
                       THEN <<"mtq.print_quant_summary">> ELSE <<>>
        IN  /\ EventNames(last.trace) =
                  <<"config.vocab_size=", "config.pipeline_dtype=", "model.freeze",
                    "get_unwrapped_mcore_model", "recipe", "mtq.quantize">>
                  \o clamp \o summary
            /\ \A i \in 1 .. Len(last.trace) :
                  last.trace[i].ev = "mtq.postprocess_amax" =>
                      last.trace[i].min_x100 = ExpectedClampMinX100(quantizer.algorithm)
            /\ model.vocab_size = "tokenizer.vocab_size"
            /\ model.pipeline_dtype = quantizer.torch_dtype
            /\ model.frozen

\* An fp8 call on rank 0 for a gptnext model: clamp and summary both happen.
QuantizeStepOrderWitness ==
    /\ QuantizedWith({"fp8"})
    /\ last.decoder_type = "gptnext"
    /\ last.rank = 0
    /\ Len(last.trace) = 8

====
